---- MODULE Spec2Model ----
(***************************************************************************)
(* Model of the go-share file storage engine: pkg/files UploadFile,        *)
(* EncryptFile, DecryptFile/DecryptData, DownloadFile and the File model,  *)
(* over a filesystem with inodes and a metadata table.                     *)
(*                                                                         *)
(* Byte contents are sequences of items.  A plaintext item Seg(s, i) is    *)
(* the i-th 64 KiB buffer of the content given to the s-th UploadFile      *)
(* call (the last one may be shorter, every one holds at least a nonce's   *)
(* worth of bytes).  NonceItem(n) is the 12-byte nonce EncryptFile writes, *)
(* Sealed(k, n, pt) the output of gcm.Seal(nil, n, pt, nil) under key k.   *)
(***************************************************************************)
EXTENDS Integers, Sequences, FiniteSets, TLC

\* ---------------------------------------------------------------- bounds
MaxStores == 2      \* UploadFile calls started in one behaviour
MaxSegs == 2        \* 64 KiB buffers in one uploaded content

Workers == {1, 2}   \* request workers (goroutines serving requests)
Users == {1, 2}     \* user IDs

\* ------------------------------------------------------------------ keys
NoKey == [id |-> 0, len |-> 0]
Keys ==
    { NoKey,
      [id |-> 1, len |-> 16],
      [id |-> 2, len |-> 24],
      [id |-> 3, len |-> 32],
      [id |-> 4, len |-> 5] }

\* len(key) is 16, 24 or 32 (UploadFile line 98, download.go:46, aes.NewCipher)
ValidKeyLen(k) == k.len \in {16, 24, 32}

\* ----------------------------------------------------------------- items
Seg(s, i) == [k |-> "seg", s |-> s, i |-> i]
NonceItem(n) == [k |-> "nonce", n |-> n]
Sealed(key, n, pt) == [k |-> "sealed", key |-> key, n |-> n, pt |-> pt]
Zero == [k |-> "zero"]

\* a sealed unit some of whose ciphertext or tag bits were flipped
Tampered(item) == [item EXCEPT !.k = "tampered"]

\* the content read from the s-th upload's reader when it ends after n buffers
Plain(s, n) == [i \in 1..n |-> Seg(s, i)]

\* ------------------------------------------------------------ file names
\* A raw file name is a sequence of tokens: "/" is a separator, any other
\* token is one path element.
RawNames ==
    { <<"a">>,
      <<"..", "/", "..", "/", "a">>,
      <<"a.tmp">>,
      <<>>,
      <<"..">>,
      <<"/">>,
      <<"a", "/", "..">> }

RECURSIVE StripSlashes(_)
StripSlashes(raw) ==
    IF raw # <<>> /\ raw[Len(raw)] = "/"
    THEN StripSlashes(SubSeq(raw, 1, Len(raw) - 1))
    ELSE raw

\* filepath.Base: "." for the empty name, trailing separators stripped,
\* the last element kept, "/" for a name made of separators only
Base(raw) ==
    IF raw = <<>> THEN "."
    ELSE LET s == StripSlashes(raw)
         IN IF s = <<>> THEN "/" ELSE s[Len(s)]

RECURSIVE Clean(_, _)
Clean(acc, elems) ==
    IF elems = <<>> THEN acc
    ELSE LET e == Head(elems)
             rest == Tail(elems)
         IN IF e \in {".", "/", ""} THEN Clean(acc, rest)
            ELSE IF e = ".."
                 THEN IF acc # <<>> /\ acc[Len(acc)] # ".."
                      THEN Clean(SubSeq(acc, 1, Len(acc) - 1), rest)
                      ELSE Clean(Append(acc, ".."), rest)
                 ELSE Clean(Append(acc, e), rest)

\* filepath.Join: the elements joined and cleaned; a path is the sequence
\* of its elements below the working directory
Join(elems) == Clean(<<>>, elems)

\* the configured storage root "./uploads" (main.go)
StorageRoot == <<"uploads">>

UserDir(uid) == "user_" \o ToString(uid)

\* UploadFile 65
FilePath(uid, name) == Join(StorageRoot \o <<UserDir(uid), name>>)

\* filepath.Dir of a cleaned path
Dir(p) == IF p = <<>> THEN <<>> ELSE SubSeq(p, 1, Len(p) - 1)

\* encryption.go:100: filePath + ".tmp"
TempPath(p) ==
    IF p = <<>> THEN <<".tmp">>
    ELSE [p EXCEPT ![Len(p)] = p[Len(p)] \o ".tmp"]

\* ------------------------------------------------------------ state
VARIABLES
    fs,        \* path -> inode number of the file, 0 for a directory
    inodes,    \* inode number -> content, for every inode in use
    db,        \* the files table: sequence of File rows, row i has ID i
    wk,        \* worker -> the UploadFile call it is running
    out,       \* worker -> what its last finished UploadFile returned
    active,    \* the workers that serve requests
    nstores,   \* UploadFile calls started so far
    ret,       \* what the last DownloadFile call returned
    stored     \* history: row ID -> the upload that created the row

vars == <<fs, inodes, db, wk, out, active, nstores, ret, stored>>

NoPre == [exists |-> FALSE, data |-> <<>>]

\* pre: what was at filePath when the call began (history)
Idle ==
    [pc |-> "idle", uid |-> 0, name |-> "", path |-> <<>>, dst |-> 0,
     off |-> 0, key |-> NoKey, inp |-> 0, roff |-> 0, tmp |-> 0, woff |-> 0,
     nonce |-> 0, sid |-> 0, enc |-> FALSE, pre |-> NoPre]

NoOut ==
    [err |-> "pending", id |-> 0, uid |-> 0, name |-> "", path |-> <<>>,
     sid |-> 0, n |-> 0, pre |-> NoPre]

\* what a call of worker w returns: the error and the row's ID, with the
\* call's own path, number, count of buffers copied and pre-state (history)
Result(w, err, id) ==
    [err |-> err, id |-> id, uid |-> wk[w].uid, name |-> wk[w].name,
     path |-> wk[w].path, sid |-> wk[w].sid, n |-> wk[w].off,
     pre |-> wk[w].pre]
NoRet == [op |-> "none"]

\* ------------------------------------------------------------ filesystem
IsDir(f, p) == p \in DOMAIN f /\ f[p] = 0
IsFile(f, p) == p \in DOMAIN f /\ f[p] # 0

Prefixes(p) == {SubSeq(p, 1, n) : n \in 0..Len(p)}

\* os.MkdirAll succeeds unless some element of the path is a file
MkdirAllOk(f, p) == \A q \in Prefixes(p) : ~IsFile(f, q)

MkdirAll(f, p) ==
    [q \in DOMAIN f \cup Prefixes(p) |-> IF q \in DOMAIN f THEN f[q] ELSE 0]

HasChildren(f, p) == \E q \in DOMAIN f : q # p /\ Dir(q) = p

\* os.Remove: unlinks a file or an empty directory, fails otherwise
FsRemove(f, p) ==
    IF p \in DOMAIN f /\ (f[p] # 0 \/ ~HasChildren(f, p))
    THEN [q \in DOMAIN f \ {p} |-> f[q]]
    ELSE f

FreeIno(inos) ==
    CHOOSE i \in 1..(Cardinality(DOMAIN inos) + 1) :
        /\ i \notin DOMAIN inos
        /\ \A j \in 1..(i - 1) : j \in DOMAIN inos

\* os.Create: O_RDWR|O_CREATE|O_TRUNC; fails on a directory or when the
\* parent is not a directory
CreateOk(f, p) == IsDir(f, Dir(p)) /\ p # <<>> /\ ~IsDir(f, p)

CreateIno(f, inos, p) == IF IsFile(f, p) THEN f[p] ELSE FreeIno(inos)

CreateFs(f, inos, p) ==
    [q \in DOMAIN f \cup {p} |-> IF q = p THEN CreateIno(f, inos, p) ELSE f[q]]

CreateInodes(f, inos, p) ==
    [i \in DOMAIN inos \cup {CreateIno(f, inos, p)} |->
        IF i = CreateIno(f, inos, p) THEN <<>> ELSE inos[i]]

\* os.Rename of a file onto a file or a free name
RenameOk(f, from, to) == IsFile(f, from) /\ ~IsDir(f, to) /\ IsDir(f, Dir(to))

FsRename(f, from, to) ==
    [q \in (DOMAIN f \cup {to}) \ {from} |-> IF q = to THEN f[from] ELSE f[q]]

\* a write of one item at an offset, holes read as zeros
RECURSIVE Zeros(_)
Zeros(n) == IF n <= 0 THEN <<>> ELSE <<Zero>> \o Zeros(n - 1)

WriteAt(c, off, item) ==
    IF off < Len(c) THEN [c EXCEPT ![off + 1] = item]
    ELSE c \o Zeros(off - Len(c)) \o <<item>>

\* inodes live while a path or an open handle refers to them
Referenced(f, w) ==
    {f[p] : p \in DOMAIN f}
        \cup {w[x].dst : x \in Workers}
        \cup {w[x].inp : x \in Workers}
        \cup {w[x].tmp : x \in Workers}

Collect(inos, f, w) ==
    [i \in DOMAIN inos \cap Referenced(f, w) |-> inos[i]]

\* the bytes at a path, read as a whole
Content(f, inos, p) == inos[f[p]]

\* ------------------------------------------------------------ encryption
OpenUnverified(key, n, ct) ==
    /\ Len(ct) = 1
    /\ ct[1].k \in {"sealed", "tampered"}
    /\ ct[1].key = key

\* gcm.Open(nil, nonce, ciphertext, nil): the plaintext when the ciphertext
\* is one unit sealed under this key and nonce, an authentication failure
\* for anything else (a shorter input, several units, other bytes)
OpenOk(key, n, ct) ==
    /\ Len(ct) = 1
    /\ ct[1].k = "sealed"
    /\ ct[1].key = key
    /\ ct[1].n = n

\* encryption.go:66-88
DecryptData(data, key) ==
    IF ~ValidKeyLen(key) THEN [err |-> "CipherFailed", data |-> <<>>]
    ELSE IF data = <<>> THEN [err |-> "TooShort", data |-> <<>>]
    ELSE IF data[1].k = "nonce" /\ OpenOk(key, data[1].n, Tail(data))
         THEN [err |-> "", data |-> <<data[2].pt>>]
         ELSE [err |-> "AuthFailed", data |-> <<>>]

DecryptFileOpaque(f, inos, p, key) ==
    IF ~IsFile(f, p) THEN [err |-> "Failed", data |-> <<>>]
    ELSE IF DecryptData(Content(f, inos, p), key).err # ""
         THEN [err |-> "Failed", data |-> <<>>]
         ELSE DecryptData(Content(f, inos, p), key)

\* encryption.go:175-188
DecryptFile(f, inos, p, key) ==
    IF ~IsFile(f, p) THEN [err |-> "ReadFailed", data |-> <<>>]
    ELSE DecryptData(Content(f, inos, p), key)

\* ------------------------------------------------------------ metadata
LiveUnscoped(d) == 1..Len(d)

\* db.First: the rows a query finds are those not marked as deleted
Live(d) == {i \in 1..Len(d) : ~d[i].Deleted}

\* the validate:"required" tags of File (file.go:16,18)
ValidateStruct(r) == r.Name # "" /\ r.Path # <<>>

AuthorizedAnyone(row, userID) == TRUE

\* download.go:46: fileMetadata.UserID != userID is refused
Authorized(row, userID) == row.UserID = userID

DownloadFileNoLengthCheck(d, f, inos, fileID, userID, key) ==
    IF fileID \notin Live(d)
    THEN [err |-> "FileNotFound", stream |-> FALSE, data |-> <<>>,
          meta |-> 0, opened |-> FALSE]
    ELSE IF ~Authorized(d[fileID], userID)
    THEN [err |-> "Unauthorized", stream |-> FALSE, data |-> <<>>,
          meta |-> 0, opened |-> FALSE]
    ELSE IF d[fileID].IsEncrypted
    THEN IF key.len = 0
         THEN [err |-> "KeyRequired", stream |-> FALSE, data |-> <<>>,
               meta |-> fileID, opened |-> FALSE]
         ELSE LET r == DecryptFile(f, inos, d[fileID].Path, key)
              IN IF r.err # ""
                 THEN [err |-> "Decrypt" \o r.err, stream |-> FALSE,
                       data |-> <<>>, meta |-> fileID, opened |-> TRUE]
                 ELSE [err |-> "", stream |-> TRUE, data |-> r.data,
                       meta |-> fileID, opened |-> TRUE]
    ELSE IF d[fileID].Path \notin DOMAIN f
    THEN [err |-> "OpenFailed", stream |-> FALSE, data |-> <<>>,
          meta |-> 0, opened |-> TRUE]
    ELSE IF IsDir(f, d[fileID].Path)
    THEN [err |-> "", stream |-> TRUE, data |-> <<Zero>>,
          meta |-> fileID, opened |-> TRUE]
    ELSE [err |-> "", stream |-> TRUE,
          data |-> Content(f, inos, d[fileID].Path),
          meta |-> fileID, opened |-> TRUE]

\* download.go:36-79. opened: whether the stored bytes were opened or read.
DownloadFile(d, f, inos, fileID, userID, key) ==
    IF fileID \notin Live(d)
    THEN [err |-> "FileNotFound", stream |-> FALSE, data |-> <<>>,
          meta |-> 0, opened |-> FALSE]
    ELSE IF ~Authorized(d[fileID], userID)
    THEN [err |-> "Unauthorized", stream |-> FALSE, data |-> <<>>,
          meta |-> 0, opened |-> FALSE]
    ELSE IF d[fileID].IsEncrypted
    THEN IF key.len = 0
         THEN [err |-> "KeyRequired", stream |-> FALSE, data |-> <<>>,
               meta |-> fileID, opened |-> FALSE]
         ELSE IF ~ValidKeyLen(key)
         THEN [err |-> "InvalidKeyLength", stream |-> FALSE, data |-> <<>>,
               meta |-> fileID, opened |-> FALSE]
         ELSE LET r == DecryptFile(f, inos, d[fileID].Path, key)
              IN IF r.err # ""
                 THEN [err |-> "Decrypt" \o r.err, stream |-> FALSE,
                       data |-> <<>>, meta |-> fileID, opened |-> TRUE]
                 ELSE [err |-> "", stream |-> TRUE, data |-> r.data,
                       meta |-> fileID, opened |-> TRUE]
    ELSE IF d[fileID].Path \notin DOMAIN f
    THEN [err |-> "OpenFailed", stream |-> FALSE, data |-> <<>>,
          meta |-> 0, opened |-> TRUE]
    ELSE IF IsDir(f, d[fileID].Path)
    THEN [err |-> "", stream |-> TRUE, data |-> <<Zero>>,
          meta |-> fileID, opened |-> TRUE]
    ELSE [err |-> "", stream |-> TRUE,
          data |-> Content(f, inos, d[fileID].Path),
          meta |-> fileID, opened |-> TRUE]

\* controllers GetFile, the switch on DownloadFile's error: the HTTP status
StatusOf(err) ==
    CASE err = "" -> 200
      [] err = "FileNotFound" -> 404
      [] err = "Unauthorized" -> 403
      [] err = "KeyRequired" -> 400
      [] err = "InvalidKeyLength" -> 400
      [] err = "DecryptAuthFailed" -> 401
      [] OTHER -> 500

\* ------------------------------------------------------------ initial state
Init ==
    /\ fs = (<<>> :> 0) @@ (StorageRoot :> 0)
    /\ inodes = <<>>
    /\ db = <<>>
    /\ wk = [w \in Workers |-> Idle]
    /\ out = [w \in Workers |-> NoOut]
    /\ active = {1}
    /\ nstores = 0
    /\ ret = NoRet
    /\ stored = <<>>

\* ------------------------------------------------------------ UploadFile
\* UploadFile returns an error: the worker is idle again
Return(w, f, inos, err) ==
    /\ wk' = [wk EXCEPT ![w] = Idle]
    /\ fs' = f
    /\ inodes' = Collect(inos, f, [wk EXCEPT ![w] = Idle])
    /\ out' = [out EXCEPT ![w] = Result(w, err, 0)]
    /\ ret' = NoRet
    /\ UNCHANGED <<db, active, stored>>

\* the worker goes on to its next step
Goto(w, f, inos, rec) ==
    /\ wk' = [wk EXCEPT ![w] = rec]
    /\ fs' = f
    /\ inodes' = Collect(inos, f, [wk EXCEPT ![w] = rec])
    /\ ret' = NoRet
    /\ UNCHANGED <<db, out, active, stored>>

\* UploadFile 60-76: sanitize the name, build the path, make the directory,
\* create (truncate) the destination file
StoreBegin(w, uid, raw) ==
    /\ w \in active
    /\ wk[w].pc = "idle"
    /\ ret = NoRet
    /\ nstores < MaxStores
    /\ nstores' = nstores + 1
    /\ LET name == Base(raw)
           path == FilePath(uid, name)
           me == [Idle EXCEPT !.uid = uid, !.name = name, !.path = path,
                              !.sid = nstores + 1,
                              !.pre = IF IsFile(fs, path)
                                      THEN [exists |-> TRUE,
                                            data |-> Content(fs, inodes, path)]
                                      ELSE NoPre]
           failed(err) == [NoOut EXCEPT !.err = err, !.uid = uid,
                                        !.name = name, !.path = path,
                                        !.sid = nstores + 1, !.pre = me.pre]
       IN IF ~MkdirAllOk(fs, Dir(path))
          THEN /\ wk' = [wk EXCEPT ![w] = Idle]
               /\ out' = [out EXCEPT ![w] = failed("MkdirFailed")]
               /\ ret' = NoRet
               /\ UNCHANGED <<fs, inodes, db, active, stored>>
          ELSE LET f1 == MkdirAll(fs, Dir(path))
               IN IF ~CreateOk(f1, path)
                  THEN /\ wk' = [wk EXCEPT ![w] = Idle]
                       /\ fs' = f1
                       /\ out' = [out EXCEPT ![w] = failed("CreateFailed")]
                       /\ ret' = NoRet
                       /\ UNCHANGED <<inodes, db, active, stored>>
                  ELSE Goto(w, CreateFs(f1, inodes, path),
                            CreateInodes(f1, inodes, path),
                            [me EXCEPT !.pc = "copy",
                                       !.dst = CreateIno(f1, inodes, path)])

StoreCopyNoAdvance(w) ==
    /\ wk[w].pc = "copy"
    /\ wk[w].off < MaxSegs
    /\ Goto(w, fs,
            [inodes EXCEPT ![wk[w].dst] =
                WriteAt(@, 0, Seg(wk[w].sid, wk[w].off + 1))],
            [wk[w] EXCEPT !.off = @ + 1])
    /\ UNCHANGED nstores

\* UploadFile 84, one round of io.Copy: a buffer read from the reader and
\* written to dst at its offset
StoreCopy(w) ==
    /\ wk[w].pc = "copy"
    /\ wk[w].off < MaxSegs
    /\ Goto(w, fs,
            [inodes EXCEPT ![wk[w].dst] =
                WriteAt(@, wk[w].off, Seg(wk[w].sid, wk[w].off + 1))],
            [wk[w] EXCEPT !.off = @ + 1])
    /\ UNCHANGED nstores

StoreCopyFailKeeps(w) ==
    /\ wk[w].pc = "copy"
    /\ Return(w, fs, inodes, "WriteFailed")
    /\ UNCHANGED nstores

\* UploadFile 84-88: io.Copy fails (the reader is aborted, or a write
\* fails): close dst, remove filePath, return the error
StoreCopyFail(w) ==
    /\ wk[w].pc = "copy"
    /\ Return(w, FsRemove(fs, wk[w].path), inodes, "WriteFailed")
    /\ UNCHANGED nstores

\* UploadFile 84,90: the reader ends, io.Copy returns nil, dst.Close succeeds
StoreCopyDone(w) ==
    /\ wk[w].pc = "copy"
    /\ Goto(w, fs, inodes, [wk[w] EXCEPT !.pc = "key", !.dst = 0])
    /\ UNCHANGED nstores

\* UploadFile 90-93: dst.Close fails: remove filePath, return the error
StoreCloseFail(w) ==
    /\ wk[w].pc = "copy"
    /\ Return(w, FsRemove(fs, wk[w].path), inodes, "CloseFailed")
    /\ UNCHANGED nstores

\* UploadFile 95-101: no key, a key of a wrong length, or a usable key
StoreKey(w, key) ==
    /\ wk[w].pc = "key"
    /\ IF key.len = 0
       THEN Goto(w, fs, inodes, [wk[w] EXCEPT !.pc = "meta"])
       ELSE IF ~ValidKeyLen(key)
       THEN Return(w, FsRemove(fs, wk[w].path), inodes, "InvalidKeyLength")
       ELSE Goto(w, fs, inodes, [wk[w] EXCEPT !.pc = "enc", !.key = key])
    /\ UNCHANGED nstores
\* ------------------------------------------------------------ EncryptFile
\* io.ReadFull(rand.Reader, nonce): 96 random bits, a value that no other
\* call has drawn
Nonce(sid) == sid

\* UploadFile 106-109: EncryptFile returned an error: remove filePath
EncryptFailed(w, f, inos) ==
    Return(w, FsRemove(f, wk[w].path), inos, "EncryptFailed")

\* encryption.go:94-130: open the input, create (truncate) filePath+".tmp",
\* set up the cipher, draw the nonce and write it to the temporary file
EncryptOpen(w) ==
    /\ wk[w].pc = "enc"
    /\ LET path == wk[w].path
           tmpPath == TempPath(path)
       IN IF ~IsFile(fs, path)
          THEN EncryptFailed(w, fs, inodes)
          ELSE IF ~CreateOk(fs, tmpPath)
          THEN EncryptFailed(w, fs, inodes)
          ELSE LET ino == CreateIno(fs, inodes, tmpPath)
                   inos1 == CreateInodes(fs, inodes, tmpPath)
               IN Goto(w, CreateFs(fs, inodes, tmpPath),
                       [inos1 EXCEPT ![ino] =
                           WriteAt(@, 0, NonceItem(Nonce(wk[w].sid)))],
                       [wk[w] EXCEPT !.pc = "encloop", !.inp = fs[path],
                                     !.roff = 0, !.tmp = ino, !.woff = 1,
                                     !.nonce = Nonce(wk[w].sid)])
    /\ UNCHANGED nstores

\* encryption.go:141-154, one round of the loop that reads data: a buffer of
\* the input sealed with the file's nonce and written to the temporary file
EncryptChunk(w) ==
    /\ wk[w].pc = "encloop"
    /\ wk[w].roff < Len(inodes[wk[w].inp])
    /\ Goto(w, fs,
            [inodes EXCEPT ![wk[w].tmp] =
                WriteAt(@, wk[w].woff,
                        Sealed(wk[w].key, wk[w].nonce,
                               inodes[wk[w].inp][wk[w].roff + 1]))],
            [wk[w] EXCEPT !.roff = @ + 1, !.woff = @ + 1])
    /\ UNCHANGED nstores

\* encryption.go:146-148,156-169 and the deferred calls of 98,106-111: the
\* read returns n == 0, the loop ends, the temporary file is closed and
\* renamed onto filePath, then os.Remove(tempFilePath) runs
EncryptFinish(w) ==
    /\ wk[w].pc = "encloop"
    /\ wk[w].roff >= Len(inodes[wk[w].inp])
    /\ LET path == wk[w].path
           tmpPath == TempPath(path)
       IN IF ~RenameOk(fs, tmpPath, path)
          THEN EncryptFailed(w, FsRemove(fs, tmpPath), inodes)
          ELSE Goto(w, FsRemove(FsRename(fs, tmpPath, path), tmpPath), inodes,
                    [wk[w] EXCEPT !.pc = "meta", !.enc = TRUE, !.inp = 0,
                                  !.tmp = 0])
    /\ UNCHANGED nstores

\* ------------------------------------------------------------ metadata row
\* UploadFile 113-121
FileRow(w, id) ==
    [ID |-> id, Name |-> wk[w].name, ContentType |-> "text/plain",
     Path |-> wk[w].path, Description |-> "d", UserID |-> wk[w].uid,
     IsEncrypted |-> wk[w].enc, Deleted |-> FALSE]

\* UploadFile 123-133 with File.CreateFile (file.go:27-37): validate the row
\* and insert it; either failure is returned as it is
StoreMeta(w, dbOk) ==
    /\ wk[w].pc = "meta"
    /\ LET id == Len(db) + 1
           row == FileRow(w, id)
       IN IF ~ValidateStruct(row)
          THEN Return(w, fs, inodes, "ValidationFailed")
          ELSE IF ~dbOk
          THEN Return(w, fs, inodes, "DbCreateFailed")
          ELSE /\ db' = Append(db, row)
               /\ stored' = Append(stored,
                      [sid |-> wk[w].sid, n |-> wk[w].off, key |-> wk[w].key,
                       uid |-> wk[w].uid, path |-> wk[w].path])
               /\ wk' = [wk EXCEPT ![w] = Idle]
               /\ out' = [out EXCEPT ![w] = Result(w, "", id)]
               /\ ret' = NoRet
               /\ UNCHANGED <<fs, inodes, active>>
    /\ UNCHANGED nstores

\* ------------------------------------------------------------ GetFile
\* controllers GetFile, up to the call of files.DownloadFile: the request
\* is served when no other request is being served
Retrieve(fileID, userID, key) ==
    /\ ret = NoRet
    /\ \A w \in active : wk[w].pc = "idle"
    /\ ret' = [op |-> "get", id |-> fileID, uid |-> userID, key |-> key,
               res |-> DownloadFile(db, fs, inodes, fileID, userID, key)]
    /\ UNCHANGED <<fs, inodes, db, wk, out, active, nstores, stored>>

\* controllers, after the call into pkg/files: the error response is
\* written, or the stream is copied to the response and closed
RetrieveDone ==
    /\ ret # NoRet
    /\ ret' = NoRet
    /\ UNCHANGED <<fs, inodes, db, wk, out, active, nstores, stored>>

\* ------------------------------------------------------------ behaviours
\* the steps of a running UploadFile call
StoreStep(w) ==
    \/ StoreCopy(w)
    \/ StoreCopyFail(w)
    \/ StoreCopyDone(w)
    \/ StoreCloseFail(w)
    \/ \E key \in Keys : StoreKey(w, key)
    \/ EncryptOpen(w)
    \/ EncryptChunk(w)
    \/ EncryptFinish(w)
    \/ \E dbOk \in BOOLEAN : StoreMeta(w, dbOk)

\* the GetFile requests
GetStep ==
    \/ \E id \in 1..MaxStores, uid \in Users, key \in Keys :
            Retrieve(id, uid, key)
    \/ RetrieveDone

Next ==
    \/ \E w \in Workers, uid \in Users, raw \in RawNames :
            StoreBegin(w, uid, raw)
    \/ \E w \in Workers : StoreStep(w)
    \/ GetStep

Spec == Init /\ [][Next]_vars
\* the bytes of a stored file are altered from outside the program: bits
\* of the ciphertext or tag of one sealed unit are flipped
Tamper(p, i) ==
    /\ ret = NoRet
    /\ \A w \in active : wk[w].pc = "idle"
    /\ IsFile(fs, p)
    /\ i \in 1..Len(Content(fs, inodes, p))
    /\ Content(fs, inodes, p)[i].k = "sealed"
    /\ inodes' = [inodes EXCEPT ![fs[p]][i] = Tampered(@)]
    /\ UNCHANGED <<fs, db, wk, out, active, nstores, ret, stored>>

\* uploads of one user under one name, downloads, and tampering
NextTamper ==
    \/ \E w \in Workers : StoreBegin(w, 1, <<"a">>)
    \/ \E w \in Workers : StoreStep(w)
    \/ GetStep
    \/ \E p \in DOMAIN fs, i \in 1..(MaxSegs + 1) : Tamper(p, i)

SpecTamper == Init /\ [][NextTamper]_vars

\* ------------------------------------------------------------ File model
\* the body of an update request, decoded into a File: any field may be set
Patches ==
    { [Name |-> "", ContentType |-> "", Path |-> <<>>, Description |-> "",
       UserID |-> 2, IsEncrypted |-> TRUE],
      [Name |-> "b", ContentType |-> "", Path |-> <<>>, Description |-> "",
       UserID |-> 0, IsEncrypted |-> FALSE],
      [Name |-> "", ContentType |-> "", Path |-> <<"etc", "passwd">>,
       Description |-> "", UserID |-> 0, IsEncrypted |-> FALSE],
      [Name |-> "", ContentType |-> "image/png", Path |-> <<>>,
       Description |-> "e", UserID |-> 0, IsEncrypted |-> TRUE],
      [Name |-> "b", ContentType |-> "image/png", Path |-> <<"etc", "passwd">>,
       Description |-> "e", UserID |-> 2, IsEncrypted |-> FALSE] }

\* the four assignments of File.UpdateFile (file.go:48-60)
Patched(row, patch) ==
    [row EXCEPT
        !.Name = IF patch.Name # "" THEN patch.Name ELSE @,
        !.ContentType = IF patch.ContentType # "" THEN patch.ContentType ELSE @,
        !.Path = IF patch.Path # <<>> THEN patch.Path ELSE @,
        !.Description = IF patch.Description # "" THEN patch.Description ELSE @]

UpdateFileAnyone(row, userID, patch, saveOk) ==
    IF ~saveOk
    THEN [err |-> "error updating file", mem |-> Patched(row, patch),
          saved |-> FALSE]
    ELSE [err |-> "", mem |-> Patched(row, patch), saved |-> TRUE]

UpdateFileWholePatch(row, userID, patch, saveOk) ==
    IF row.UserID # userID
    THEN [err |-> "unauthorized to update file", mem |-> row, saved |-> FALSE]
    ELSE LET f == [Patched(row, patch) EXCEPT
                      !.IsEncrypted = patch.IsEncrypted]
         IN IF ~saveOk
            THEN [err |-> "error updating file", mem |-> f, saved |-> FALSE]
            ELSE [err |-> "", mem |-> f, saved |-> TRUE]

\* File.UpdateFile (file.go:43-68). mem: the File in memory after the call,
\* saved: whether db.Save wrote it.
UpdateFile(row, userID, patch, saveOk) ==
    IF row.UserID # userID
    THEN [err |-> "unauthorized to update file", mem |-> row, saved |-> FALSE]
    ELSE IF ~saveOk
    THEN [err |-> "error updating file", mem |-> Patched(row, patch),
          saved |-> FALSE]
    ELSE [err |-> "", mem |-> Patched(row, patch), saved |-> TRUE]

\* File.DeleteFile (file.go:75-85): db.Delete marks the row as deleted
DeleteFile(row, userID, deleteOk) ==
    IF row.UserID # userID
    THEN [err |-> "unauthorized to delete file", mem |-> row, saved |-> FALSE]
    ELSE IF ~deleteOk
    THEN [err |-> "error deleting file", mem |-> row, saved |-> FALSE]
    ELSE [err |-> "", mem |-> [row EXCEPT !.Deleted = TRUE], saved |-> TRUE]

NotFound == [err |-> "File not found", mem |-> 0, saved |-> FALSE]

\* controllers UpdateFile: load the row, decode the body, call File.UpdateFile
Update(fileID, userID, patch, saveOk) ==
    /\ ret = NoRet
    /\ \A w \in active : wk[w].pc = "idle"
    /\ LET r == IF fileID \in Live(db)
                THEN UpdateFile(db[fileID], userID, patch, saveOk)
                ELSE NotFound
       IN /\ ret' = [op |-> "update", id |-> fileID, uid |-> userID,
                     patch |-> patch,
                     before |-> IF fileID \in Live(db) THEN db[fileID] ELSE 0,
                     res |-> r]
          /\ db' = IF r.saved THEN [db EXCEPT ![fileID] = r.mem] ELSE db
    /\ UNCHANGED <<fs, inodes, wk, out, active, nstores, stored>>

\* controllers DeleteFile: load the row, call File.DeleteFile
Delete(fileID, userID, deleteOk) ==
    /\ ret = NoRet
    /\ \A w \in active : wk[w].pc = "idle"
    /\ LET r == IF fileID \in Live(db)
                THEN DeleteFile(db[fileID], userID, deleteOk)
                ELSE NotFound
       IN /\ ret' = [op |-> "delete", id |-> fileID, uid |-> userID,
                     before |-> IF fileID \in Live(db) THEN db[fileID] ELSE 0,
                     res |-> r]
          /\ db' = IF r.saved THEN [db EXCEPT ![fileID] = r.mem] ELSE db
    /\ UNCHANGED <<fs, inodes, wk, out, active, nstores, stored>>

\* uploads of one user under one name, updates and deletions
NextFiles ==
    \/ \E w \in Workers : StoreBegin(w, 1, <<"a">>)
    \/ \E w \in Workers : StoreStep(w)
    \/ RetrieveDone
    \/ \E id \in 1..MaxStores, uid \in Users, patch \in Patches,
          saveOk \in BOOLEAN : Update(id, uid, patch, saveOk)
    \/ \E id \in 1..MaxStores, uid \in Users, deleteOk \in BOOLEAN :
            Delete(id, uid, deleteOk)

SpecFiles == Init /\ [][NextFiles]_vars

\* ------------------------------------------------------------ concurrency
\* two workers serve requests at the same time
InitConcurrent ==
    /\ fs = (<<>> :> 0) @@ (StorageRoot :> 0)
    /\ inodes = <<>>
    /\ db = <<>>
    /\ wk = [w \in Workers |-> Idle]
    /\ out = [w \in Workers |-> NoOut]
    /\ active = Workers
    /\ nstores = 0
    /\ ret = NoRet
    /\ stored = <<>>

\* controllers GetFile, up to the return of files.DownloadFile, served by a
\* further worker while an UploadFile call is running
RetrieveDuring(fileID, userID, key) ==
    /\ ret = NoRet
    /\ \E w \in active : wk[w].pc # "idle"
    /\ ret' = [op |-> "get", id |-> fileID, uid |-> userID, key |-> key,
               res |-> DownloadFile(db, fs, inodes, fileID, userID, key)]
    /\ UNCHANGED <<fs, inodes, db, wk, out, active, nstores, stored>>

\* uploads of one user under one name by two workers, and downloads by the
\* owner while an upload is running
NextConcurrent ==
    \/ \E w \in Workers : StoreBegin(w, 1, <<"a">>)
    \/ \E w \in Workers : StoreStep(w)
    \/ \E id \in 1..MaxStores, key \in Keys : RetrieveDuring(id, 1, key)
    \/ RetrieveDone

SpecConcurrent == InitConcurrent /\ [][NextConcurrent]_vars

\* ------------------------------------------------------------ interruption
\* the process is killed while UploadFile calls are running and is started
\* again: the calls end where they are, no error path and no deferred call
\* runs, open files are closed, the filesystem and the table stay as they are
Interrupt ==
    /\ \E w \in active : wk[w].pc # "idle"
    /\ wk' = [w \in Workers |-> Idle]
    /\ out' = [w \in Workers |->
                  IF wk[w].pc # "idle"
                  THEN Result(w, "Interrupted in " \o wk[w].pc, 0)
                  ELSE out[w]]
    /\ inodes' = Collect(inodes, fs, [w \in Workers |-> Idle])
    /\ ret' = NoRet
    /\ UNCHANGED <<fs, db, active, nstores, stored>>

\* uploads of one user under one name, interrupted at any step
NextInterrupt ==
    \/ \E w \in Workers : StoreBegin(w, 1, <<"a">>)
    \/ \E w \in Workers : StoreStep(w)
    \/ Interrupt

SpecInterrupt == Init /\ [][NextInterrupt]_vars

\* ------------------------------------------------------------ EncryptFile errors
\* encryption.go:94-104: os.Open of the input or os.Create of the temporary
\* file fails; EncryptFile returns before anything was created
EncryptOpenFault(w) ==
    /\ wk[w].pc = "enc"
    /\ Goto(w, fs, inodes, [wk[w] EXCEPT !.pc = "encerr"])
    /\ UNCHANGED nstores

EncryptFaultLeavesTemp(w) ==
    /\ wk[w].pc = "encloop"
    /\ Goto(w, fs, inodes,
            [wk[w] EXCEPT !.pc = "encerr", !.inp = 0, !.tmp = 0])
    /\ UNCHANGED nstores

\* encryption.go:113-165 with the deferred calls of 98 and 106-111: the
\* cipher setup, the nonce, a read, a write, the close or the rename fails
\* after the temporary file was created; the deferred function closes it
\* and removes it, and EncryptFile returns the error
EncryptFault(w) ==
    /\ wk[w].pc = "encloop"
    /\ Goto(w, FsRemove(fs, TempPath(wk[w].path)), inodes,
            [wk[w] EXCEPT !.pc = "encerr", !.inp = 0, !.tmp = 0])
    /\ UNCHANGED nstores

\* UploadFile 106-109: EncryptFile has returned an error
StoreEncryptFailed(w) ==
    /\ wk[w].pc = "encerr"
    /\ EncryptFailed(w, fs, inodes)
    /\ UNCHANGED nstores

\* uploads of one user under one name, with failures inside EncryptFile
NextEncrypt ==
    \/ \E w \in Workers : StoreBegin(w, 1, <<"a">>)
    \/ \E w \in Workers : StoreStep(w)
    \/ \E w \in Workers : EncryptOpenFault(w)
    \/ \E w \in Workers : EncryptFault(w)
    \/ \E w \in Workers : StoreEncryptFailed(w)

SpecEncrypt == Init /\ [][NextEncrypt]_vars

\* ------------------------------------------------------------ shared paths
\* update requests whose body sets the path to a file in a user's directory
PathPatches ==
    { [Name |-> "", ContentType |-> "", Path |-> FilePath(u, "a"),
       Description |-> "", UserID |-> 0, IsEncrypted |-> FALSE] : u \in Users }

\* uploads of every user under one name, updates of the path, deletions
\* and downloads
NextShare ==
    \/ \E w \in Workers, uid \in Users : StoreBegin(w, uid, <<"a">>)
    \/ \E w \in Workers : StoreStep(w)
    \/ \E id \in 1..MaxStores, uid \in Users, patch \in PathPatches,
          saveOk \in BOOLEAN : Update(id, uid, patch, saveOk)
    \/ \E id \in 1..MaxStores, uid \in Users, deleteOk \in BOOLEAN :
            Delete(id, uid, deleteOk)
    \/ GetStep

SpecShare == Init /\ [][NextShare]_vars

\* ------------------------------------------------------------ history
\* what EncryptFile writes for the content Plain(s, n) under a key: the
\* nonce, then every buffer sealed with that nonce
Encoded(s, n, key) ==
    <<NonceItem(Nonce(s))>> \o
        [i \in 1..n |-> Sealed(key, Nonce(s), Seg(s, i))]

\* the bytes the upload that created row id left at its path
StoredBytes(id) ==
    IF stored[id].key.len = 0
    THEN Plain(stored[id].sid, stored[id].n)
    ELSE Encoded(stored[id].sid, stored[id].n, stored[id].key)

\* the row's path still holds exactly those bytes
InPlace(id) ==
    /\ IsFile(fs, db[id].Path)
    /\ Content(fs, inodes, db[id].Path) = StoredBytes(id)

\* the row's path holds those bytes with some sealed unit tampered with
TamperedCopy(id) ==
    /\ IsFile(fs, db[id].Path)
    /\ LET c == Content(fs, inodes, db[id].Path)
           e == StoredBytes(id)
       IN /\ Len(c) = Len(e)
          /\ c # e
          /\ \A i \in 1..Len(c) : c[i] = e[i] \/ c[i] = Tampered(e[i])

Quiet(w) == wk[w].pc = "idle"

NoRowOf(sid) == \A id \in DOMAIN stored : stored[id].sid # sid

\* ------------------------------------------------------------ claims

\* C1: a successful Store with a key of 16, 24 or 32 bytes, directly followed
\* by Retrieve of that ID by the owner with the same key, yields exactly the
\* plaintext that was stored, whatever its length.
C1_RoundTrip ==
    \A w \in active :
        (/\ ret # NoRet
         /\ Quiet(w)
         /\ out[w].err = ""
         /\ ret.id = out[w].id
         /\ ret.uid = out[w].uid
         /\ ValidKeyLen(stored[out[w].id].key)
         /\ ret.key = stored[out[w].id].key)
        => /\ ret.res.err = ""
           /\ ret.res.data = Plain(out[w].sid, out[w].n)

\* C2: while a Store is still receiving and writing its content, the final
\* path does not exist or holds the complete bytes of an earlier committed
\* Store.
C2_NoPartialFile ==
    \A w \in active :
        wk[w].pc = "copy"
        => \/ ~IsFile(fs, wk[w].path)
           \/ \E id \in DOMAIN stored :
                /\ stored[id].path = wk[w].path
                /\ Content(fs, inodes, wk[w].path) = StoredBytes(id)

\* C3: after a Store that failed while streaming, a file that was at the
\* final path before the Store began is still there with its previous bytes.
C3_FailedStoreKeepsOldFile ==
    \A w \in active :
        (Quiet(w) /\ out[w].err = "WriteFailed" /\ out[w].pre.exists)
        => /\ IsFile(fs, out[w].path)
           /\ Content(fs, inodes, out[w].path) = out[w].pre.data

\* C4: after a Store whose row failed validation or whose insert failed, no
\* file is left at the final path and no row was created.
C4_MetadataFailureCleansUp ==
    \A w \in active :
        (Quiet(w) /\ out[w].err \in {"ValidationFailed", "DbCreateFailed"})
        => /\ ~IsFile(fs, out[w].path)
           /\ NoRowOf(out[w].sid)

\* C5: after a Store whose input stream was aborted, nothing exists at the
\* final path and no row was created for that Store.
C5_AbortLeavesNothing ==
    \A w \in active :
        (Quiet(w) /\ out[w].err = "WriteFailed")
        => /\ out[w].path \notin DOMAIN fs
           /\ NoRowOf(out[w].sid)

\* a Store aborted after one buffer, with more to come, has returned
C5_Witness ==
    \E w \in active :
        /\ Quiet(w)
        /\ out[w].err = "WriteFailed"
        /\ out[w].n >= 1
        /\ out[w].n < MaxSegs

\* C6: for every existing row, every requester other than its owner and
\* every key (none, valid, invalid, the right one), Retrieve fails with
\* Unauthorized, returns no stream and no row, and opens no stored bytes.
C6_Isolation ==
    \A id \in Live(db), uid \in Users, key \in Keys :
        uid # db[id].UserID
        => LET r == DownloadFile(db, fs, inodes, id, uid, key)
           IN /\ r.err = "Unauthorized"
              /\ ~r.stream
              /\ r.data = <<>>
              /\ r.meta = 0
              /\ ~r.opened

\* another user has asked for an intact encrypted file with its own key
C6_Witness ==
    /\ ret # NoRet
    /\ ret.id \in Live(db)
    /\ ret.uid # db[ret.id].UserID
    /\ db[ret.id].IsEncrypted
    /\ InPlace(ret.id)
    /\ stored[ret.id].n = 1
    /\ ret.key = stored[ret.id].key
    /\ ret.res.err = "Unauthorized"

\* C7: for a file stored with key k and still in place, Retrieve by the owner
\* with any other key of valid length fails with the authentication error
\* and returns no plaintext; when the stored bytes are missing it fails with
\* a read error, which GetFile answers with a different status.
C7_WrongKey ==
    \A id \in Live(db), key \in Keys :
        (db[id].IsEncrypted /\ ValidKeyLen(key) /\ key # stored[id].key)
        => LET r == DownloadFile(db, fs, inodes, id, db[id].UserID, key)
           IN /\ InPlace(id)
                 => /\ r.err = "DecryptAuthFailed"
                    /\ ~r.stream
                    /\ r.data = <<>>
                    /\ StatusOf(r.err) = 401
              /\ db[id].Path \notin DOMAIN fs
                 => /\ r.err = "DecryptReadFailed"
                    /\ ~r.stream
                    /\ StatusOf(r.err) # StatusOf("DecryptAuthFailed")

\* the owner has asked with a wrong key for a file the right key opens
C7_Witness ==
    /\ ret # NoRet
    /\ ret.id \in Live(db)
    /\ ret.uid = db[ret.id].UserID
    /\ db[ret.id].IsEncrypted
    /\ InPlace(ret.id)
    /\ stored[ret.id].n = 1
    /\ ValidKeyLen(ret.key)
    /\ ret.key # stored[ret.id].key
    /\ ret.res.err = "DecryptAuthFailed"

\* C8: when ciphertext or tag bits of a stored encrypted file were altered,
\* Retrieve by the owner with the right key fails with the authentication
\* error and returns no plaintext.
C8_TamperDetected ==
    \A id \in Live(db) :
        (db[id].IsEncrypted /\ TamperedCopy(id))
        => LET r == DownloadFile(db, fs, inodes, id, db[id].UserID,
                                 stored[id].key)
           IN /\ r.err = "DecryptAuthFailed"
              /\ ~r.stream
              /\ r.data = <<>>

\* the owner has asked with the right key for a tampered one-unit file
C8_Witness ==
    /\ ret # NoRet
    /\ ret.id \in Live(db)
    /\ ret.uid = db[ret.id].UserID
    /\ db[ret.id].IsEncrypted
    /\ TamperedCopy(ret.id)
    /\ stored[ret.id].n = 1
    /\ ret.key = stored[ret.id].key
    /\ ret.res.err = "DecryptAuthFailed"

\* C9: the path a Store writes to is a direct child of the owner's own
\* directory under the storage root.
C9_PathInOwnerDir ==
    \A w \in active :
        wk[w].pc # "idle"
        => Dir(wk[w].path) = StorageRoot \o <<UserDir(wk[w].uid)>>

\* C10: a Store whose name has no final element fails, leaves no file at the
\* path it resolved and creates no row.
C10_EmptyNameRejected ==
    \A w \in active :
        (Quiet(w) /\ out[w].err # "pending" /\ out[w].name \in {".", "/"})
        => /\ out[w].err # ""
           /\ ~IsFile(fs, out[w].path)
           /\ NoRowOf(out[w].sid)

\* C11: a Store given a non-empty key whose length is not 16, 24 or 32 fails
\* with the invalid-key error without touching the final path: nothing is
\* there if nothing was, a file that was there keeps its bytes, and no row
\* is created.
C11_InvalidKeyNoIO ==
    \A w \in active :
        (Quiet(w) /\ out[w].err = "InvalidKeyLength")
        => /\ IF out[w].pre.exists
              THEN /\ IsFile(fs, out[w].path)
                   /\ Content(fs, inodes, out[w].path) = out[w].pre.data
              ELSE out[w].path \notin DOMAIN fs
           /\ NoRowOf(out[w].sid)

\* C12: Retrieve fails with not-found for an absent row, else with
\* Unauthorized for a requester other than the owner, else, for an encrypted
\* row, with the key-required error when no key is given and with the
\* invalid-key error when the key's length is not 16, 24 or 32; in the last
\* two cases the stored bytes are not opened or read.
C12_RetrieveOrder ==
    \A id \in 1..MaxStores, uid \in Users, key \in Keys :
        LET r == DownloadFile(db, fs, inodes, id, uid, key)
        IN IF id \notin Live(db) THEN r.err = "FileNotFound"
           ELSE IF uid # db[id].UserID THEN r.err = "Unauthorized"
           ELSE /\ (db[id].IsEncrypted /\ key.len = 0)
                   => /\ r.err = "KeyRequired"
                      /\ ~r.stream
                      /\ ~r.opened
                /\ (db[id].IsEncrypted /\ key.len # 0 /\ ~ValidKeyLen(key))
                   => /\ r.err = "InvalidKeyLength"
                      /\ ~r.stream
                      /\ ~r.opened

\* the owner has asked for an intact encrypted file with a key of 5 bytes
C12_Witness ==
    /\ ret # NoRet
    /\ ret.id \in Live(db)
    /\ ret.uid = db[ret.id].UserID
    /\ db[ret.id].IsEncrypted
    /\ InPlace(ret.id)
    /\ ret.key.len = 5
    /\ ret.res.err = "InvalidKeyLength"

\* C13: a successful Store without a key creates a row with IsEncrypted
\* false, and a Retrieve of that ID by the owner without a key that directly
\* follows yields exactly the bytes that were stored.
C13_PlainRoundTrip ==
    \A w \in active :
        (/\ ret # NoRet
         /\ Quiet(w)
         /\ out[w].err = ""
         /\ ret.id = out[w].id
         /\ ret.uid = out[w].uid
         /\ stored[out[w].id].key = NoKey
         /\ ret.key = NoKey)
        => /\ ~db[out[w].id].IsEncrypted
           /\ ret.res.err = ""
           /\ ret.res.stream
           /\ ret.res.data = Plain(out[w].sid, out[w].n)

\* the owner has read back a content of MaxSegs buffers stored without a key
C13_Witness ==
    \E w \in active :
        /\ ret # NoRet
        /\ Quiet(w)
        /\ out[w].err = ""
        /\ ret.id = out[w].id
        /\ ret.uid = out[w].uid
        /\ stored[out[w].id].key = NoKey
        /\ ret.key = NoKey
        /\ out[w].n = MaxSegs
        /\ ret.res.data = Plain(out[w].sid, MaxSegs)

C15_NonOwnerChangesNothing ==
    [][ (/\ ret = NoRet
         /\ ret'.op \in {"update", "delete"}
         /\ ret'.id \in Live(db)
         /\ ret'.uid # db[ret'.id].UserID)
        => /\ ret'.res.err = IF ret'.op = "update"
                             THEN "unauthorized to update file"
                             ELSE "unauthorized to delete file"
           /\ ret'.res.mem = db[ret'.id]
           /\ db' = db
           /\ fs' = fs
           /\ inodes' = inodes ]_vars

\* another user has asked to update every field of an existing row
C15_Witness ==
    /\ ret # NoRet
    /\ ret.op = "update"
    /\ ret.id \in Live(db)
    /\ ret.uid # db[ret.id].UserID
    /\ ret.patch.Name = "b"
    /\ ret.patch.Path # <<>>
    /\ ret.res.err = "unauthorized to update file"

\* C16: the Path of every existing row lies inside the storage root and is
\* the path resolved from the row's owner and its Name.
C16_PathDerived ==
    \A id \in Live(db) :
        /\ Len(db[id].Path) > Len(StorageRoot)
        /\ SubSeq(db[id].Path, 1, Len(StorageRoot)) = StorageRoot
        /\ db[id].Path = FilePath(db[id].UserID, db[id].Name)

\* bytes EncryptFile can have written under some key: a nonce, then units
\* sealed under one key with that nonce
ValidEncoding(c) ==
    /\ c # <<>>
    /\ c[1].k = "nonce"
    /\ \E key \in Keys :
        /\ ValidKeyLen(key)
        /\ \A i \in 2..Len(c) :
            /\ c[i].k = "sealed"
            /\ c[i].key = key
            /\ c[i].n = c[1].n

\* C17: when every Store started so far has completed successfully, every
\* existing row with IsEncrypted true has at its Path a file whose bytes
\* are a valid encrypted encoding under some key, never plaintext.
C17_EncryptedRowsHoldCiphertext ==
    ((\A w \in active : Quiet(w)) /\ Len(db) = nstores)
    => \A id \in Live(db) :
          db[id].IsEncrypted
          => /\ IsFile(fs, db[id].Path)
             /\ ValidEncoding(Content(fs, inodes, db[id].Path))

\* C18: when two Stores of the same owner and name, run by two workers, have
\* both completed successfully, the final path holds exactly the complete
\* bytes of one of the two (plain, or encrypted under its key), never a
\* mixture of both.
C18_LastStoreWins ==
    (/\ Quiet(1)
     /\ Quiet(2)
     /\ out[1].err = ""
     /\ out[2].err = ""
     /\ out[1].path = out[2].path)
    => /\ IsFile(fs, out[1].path)
       /\ Content(fs, inodes, out[1].path)
              \in {StoredBytes(out[1].id), StoredBytes(out[2].id)}

\* C19: a Retrieve by the owner of an unencrypted row, served while a Store
\* to the row's path is running that found the row's bytes in place when it
\* began, succeeds and reads either those bytes or, once the Store has
\* published, the complete bytes of the Store.
C19_RetrieveSeesCommitted ==
    \A w \in active :
        (/\ ret # NoRet
         /\ ret.op = "get"
         /\ ret.id \in Live(db)
         /\ ret.uid = db[ret.id].UserID
         /\ ~db[ret.id].IsEncrypted
         /\ wk[w].pc # "idle"
         /\ wk[w].path = db[ret.id].Path
         /\ wk[w].pre.exists
         /\ wk[w].pre.data = StoredBytes(ret.id))
        => /\ ret.res.err = ""
           /\ \/ ret.res.data = wk[w].pre.data
              \/ /\ wk[w].pc = "meta"
                 /\ ret.res.data = IF wk[w].enc
                                   THEN Encoded(wk[w].sid, wk[w].off,
                                                wk[w].key)
                                   ELSE Plain(wk[w].sid, wk[w].off)

\* C20: after a Store was interrupted while copying, checking the key or
\* encrypting, that is before its publish step, the final path has what it
\* had when the Store began (nothing, or the earlier file with its bytes)
\* and no row was created for the Store.
C20_InterruptedStoreInvisible ==
    \A w \in active :
        (/\ Quiet(w)
         /\ out[w].err \in {"Interrupted in copy", "Interrupted in key",
                            "Interrupted in enc", "Interrupted in encloop"})
        => /\ IF out[w].pre.exists
              THEN /\ IsFile(fs, out[w].path)
                   /\ Content(fs, inodes, out[w].path) = out[w].pre.data
              ELSE out[w].path \notin DOMAIN fs
           /\ NoRowOf(out[w].sid)

\* C21: while a Store with a valid key is encrypting a content of at least
\* one buffer, its final path does not hold that content as plaintext.
C21_NoPlaintextAtFinalPath ==
    \A w \in active :
        (wk[w].pc \in {"enc", "encloop"} /\ wk[w].off >= 1)
        => ~(/\ IsFile(fs, wk[w].path)
             /\ Content(fs, inodes, wk[w].path) = Plain(wk[w].sid, wk[w].off))

\* C22: a successful Delete by the owner marks that row as deleted and
\* changes no other row and no stored bytes; for a deleted row every
\* Retrieve, by any requester with any key, and every later Update and
\* Delete fails with not-found and changes nothing.
C22_DeleteIsFinal ==
    /\ [](\A id \in 1..Len(db) :
            db[id].Deleted
            => \A uid \in Users, key \in Keys :
                  LET r == DownloadFile(db, fs, inodes, id, uid, key)
                  IN r.err = "FileNotFound" /\ ~r.stream /\ ~r.opened)
    /\ [][ /\ (ret = NoRet /\ ret'.op = "delete" /\ ret'.res.err = "")
              => /\ db' = [db EXCEPT ![ret'.id].Deleted = TRUE]
                 /\ fs' = fs
                 /\ inodes' = inodes
           /\ (/\ ret = NoRet
               /\ ret'.op \in {"update", "delete"}
               /\ ret'.id \in 1..Len(db)
               /\ db[ret'.id].Deleted)
              => /\ ret'.res.err = "File not found"
                 /\ db' = db
                 /\ fs' = fs
                 /\ inodes' = inodes ]_vars

\* the former owner has asked to update a row deleted before, whose bytes
\* are still at its path
C22_Witness ==
    /\ ret # NoRet
    /\ ret.op = "update"
    /\ ret.id \in 1..Len(db)
    /\ db[ret.id].Deleted
    /\ ret.uid = db[ret.id].UserID
    /\ InPlace(ret.id)
    /\ ret.res.err = "File not found"

\* C23: in the temporary file an encryption is writing, no two units are
\* sealed under the same key with the same nonce.
C23_FreshNoncePerChunk ==
    \A w \in active :
        wk[w].pc = "encloop"
        => LET c == inodes[wk[w].tmp]
           IN \A i, j \in 1..Len(c) :
                (i # j /\ c[i].k = "sealed" /\ c[j].k = "sealed")
                => <<c[i].key, c[i].n>> # <<c[j].key, c[j].n>>

\* C24: after a successful Store of an empty content with a valid key, the
\* file at the final path holds exactly one sealed unit, and the owner's
\* Retrieve with that key succeeds and yields the empty content.
C24_EmptyFileOneChunk ==
    \A w \in active :
        (/\ Quiet(w)
         /\ out[w].err = ""
         /\ out[w].n = 0
         /\ db[out[w].id].IsEncrypted)
        => LET c == Content(fs, inodes, out[w].path)
               r == DownloadFile(db, fs, inodes, out[w].id, out[w].uid,
                                 stored[out[w].id].key)
           IN /\ Cardinality({i \in 1..Len(c) : c[i].k = "sealed"}) = 1
              /\ r.err = ""
              /\ r.data = <<>>

\* sizes in bytes: a buffer of EncryptFile's loop, the GCM nonce, the GCM tag
ChunkSize == 65536
NonceSize == 12
TagSize == 16

\* the number of bytes of an item, for contents made of full buffers:
\* gcm.Seal returns the ciphertext, as long as the plaintext, and the tag
ItemSize(item) ==
    CASE item.k = "nonce" -> NonceSize
      [] item.k \in {"sealed", "tampered"} -> ChunkSize + TagSize
      [] OTHER -> ChunkSize

RECURSIVE ByteSize(_)
ByteSize(c) == IF c = <<>> THEN 0 ELSE ItemSize(Head(c)) + ByteSize(Tail(c))

\* C25: after a successful Store of n >= 1 full buffers with a valid key,
\* the stored file is n framed chunks, each a 4-byte length, a 12-byte
\* nonce, the ciphertext and a 16-byte tag, so its size is the sum of
\* 4 + 12 + l + 16 over the chunks, and the owner's Retrieve with the key
\* reads all chunks back in order.
C25_FramedChunks ==
    \A w \in active :
        (/\ Quiet(w)
         /\ out[w].err = ""
         /\ out[w].n >= 1
         /\ db[out[w].id].IsEncrypted)
        => LET c == Content(fs, inodes, out[w].path)
               r == DownloadFile(db, fs, inodes, out[w].id, out[w].uid,
                                 stored[out[w].id].key)
           IN /\ ByteSize(c)
                    = out[w].n * (4 + NonceSize + ChunkSize + TagSize)
              /\ r.err = ""
              /\ r.data = Plain(out[w].sid, out[w].n)

C27_RowsHaveFiles ==
    (\A w \in active : Quiet(w))
    => \A id \in Live(db) : IsFile(fs, db[id].Path)

\* the Store whose content an item of a file comes from, 0 for none
Origin(item) ==
    CASE item.k = "seg" -> item.s
      [] item.k \in {"sealed", "tampered"} -> item.pt.s
      [] OTHER -> 0

\* C28: the bytes a successful Retrieve returns to a requester come only
\* from Stores of that requester.
C28_ReadsOwnBytesOnly ==
    (ret # NoRet /\ ret.op = "get" /\ ret.res.err = "")
    => \A i \in 1..Len(ret.res.data), id \in DOMAIN stored :
          stored[id].sid = Origin(ret.res.data[i])
          => stored[id].uid = ret.uid

\* C29: a Store changes no file of an existing row whose path is not the
\* Store's own final path: when at most one Store has begun after the
\* row's own, and that Store has another final path, the row's path still
\* holds the bytes its Store left there.
C29_OtherFilesUntouched ==
    \A id \in Live(db), w \in active :
        (/\ nstores <= stored[id].sid + 1
         /\ wk[w].pc # "idle" => wk[w].path # db[id].Path
         /\ (wk[w].pc = "idle" /\ out[w].sid > stored[id].sid)
            => out[w].path # db[id].Path)
        => InPlace(id)

\* C30: when every Store so far has succeeded, a Retrieve of any existing
\* row by its owner, with the key of the row's Store if it had one, yields
\* exactly the content of that Store (stated for contents the codec can
\* read back: stored without a key, or of one buffer).
C30_LaterStoresKeepContent ==
    (/\ ret # NoRet
     /\ ret.op = "get"
     /\ ret.id \in Live(db)
     /\ ret.uid = db[ret.id].UserID
     /\ ret.key = stored[ret.id].key
     /\ stored[ret.id].key = NoKey \/ stored[ret.id].n = 1
     /\ Len(db) = nstores)
    => /\ ret.res.err = ""
       /\ ret.res.data = Plain(stored[ret.id].sid, stored[ret.id].n)
====
